---- MODULE Spec2Model ----
(***************************************************************************)
(* WA-Broadcast-Backend: the broadcast dispatch engine of src/main.py.     *)
(*                                                                         *)
(* The durable state is the committed content of the tables of             *)
(* src/models.py (organizations, members, broadcasts, broadcast_logs).     *)
(* Every execution of process_broadcast is a "run" with its own program    *)
(* counter; a run works on a storage session `db`, whose pending rows      *)
(* (db.add) reach the tables only at db.commit().  The request handlers    *)
(* create_member, delete_member and create_broadcast commit once and are   *)
(* one step each; CreateSpec serves create_member in its two halves, the   *)
(* count with its limit check and the insert, so that concurrent requests  *)
(* interleave.  update_member writes only name and phone_number, which no  *)
(* row of the model carries.  Member primary keys are never reused.        *)
(***************************************************************************)
EXTENDS Integers, Sequences, FiniteSets, Bags, TLC

\* ---- bounds of the model -------------------------------------------------
MaxOrg == 2
MaxMember == 2
MaxBroadcast == 1
MaxRun == 2
MaxRequest == 3

\* ---- program constants ---------------------------------------------------
\* main.py:128  "if count >= 1000"
MEMBER_LIMIT == 1000

Org == 1..MaxOrg
MemberId == 1..MaxMember
BroadcastId == 1..MaxBroadcast
RunId == 1..MaxRun
RequestId == 1..MaxRequest

\* models.py:22-27
DRAFT == "draft"
SCHEDULED == "scheduled"
PROCESSING == "processing"
COMPLETED == "completed"
FAILED == "failed"
BroadcastStatus == {DRAFT, SCHEDULED, PROCESSING, COMPLETED, FAILED}

\* models.py:30-32
ACTIVE == "active"
INACTIVE == "inactive"
MemberStatus == {ACTIVE, INACTIVE}

\* a nullable column that holds no value
NULL == "null"

\* schemas.py:91-96  the body of a create_broadcast request: a text message
\* with the defaults of the optional fields, or a scheduled template message
\* with a media attachment
TextMessage ==
    [content |-> "hello", media_url |-> NULL, message_type |-> "text",
     template_name |-> NULL, scheduled_time |-> NULL]

TemplateMessage ==
    [content |-> "offer", media_url |-> "https://cdn/offer.png",
     message_type |-> "template", template_name |-> "offer_v1",
     scheduled_time |-> "2030-01-01T09:00"]

Payload == {TextMessage, TemplateMessage}

VARIABLES
    credentials,   \* organizations.whatsapp_access_token, per organization
    members,       \* rows of table members: [id, organization_id, status]
    nextMemberId,  \* next primary key of table members
    broadcasts,    \* rows of table broadcasts, broadcasts[id] = [organization_id, status]
    logs,          \* rows of table broadcast_logs without their primary key, as a bag:
                   \* two rows of one (broadcast, member) pair are two copies
    run,           \* the executions of process_broadcast
    nextRun,       \* number of executions started or enqueued so far, plus one
    sends,         \* the send attempts (main.py:227), as a history
    rejected,      \* the send attempts the channel refused, as a history
    roster,        \* per broadcast, the members that were eligible when it was
                   \* created, as a history kept by WindowSpec only
    creating       \* the create_member requests served in two halves:
                   \* [id, pc, organization_id, status]

vars == <<credentials, members, nextMemberId, broadcasts, logs,
          run, nextRun, sends, rejected, roster, creating>>

\* ---- helpers -------------------------------------------------------------
\* the ids of a set of rows, ascending, as the sequence a query returns
RECURSIVE SortedSeq(_)
SortedSeq(S) ==
    IF S = {} THEN <<>>
    ELSE LET m == CHOOSE x \in S : \A y \in S : x <= y
         IN <<m>> \o SortedSeq(S \ {m})

Range(s) == {s[i] : i \in 1..Len(s)}

BroadcastExists(b) == b \in 1..Len(broadcasts)

\* the members query without its status filter
ActiveMembersAnyStatus(o) ==
    {m.id : m \in {x \in members : x.organization_id = o}}

\* the members query without its organization filter
ActiveMembersAnyOrganization(o) ==
    {m.id : m \in {x \in members : x.status = ACTIVE}}

\* main.py:205-212  the members query of process_broadcast
ActiveMembers(o) ==
    {m.id : m \in {x \in members : x.organization_id = o /\ x.status = ACTIVE}}

\* an execution of process_broadcast: its position pc, its argument
\* broadcast_id, the session db it was handed ("request": the session of the
\* create_broadcast request, "caller": the session of another caller) and
\* whether that session's context is still open (ctx), and its locals: the
\* status and organization it loaded, the members it resolved, the loop index
\* and the rows added to the session and not yet committed
IdleRun ==
    [pc |-> "idle", broadcast_id |-> 0, db |-> NULL, ctx |-> NULL,
     loaded |-> NULL, organization_id |-> 0, members |-> <<>>, idx |-> 0,
     pending |-> {}]

Init ==
    /\ credentials = [o \in Org |-> NULL]
    /\ members = {}
    /\ nextMemberId = 1
    /\ broadcasts = <<>>
    /\ logs = EmptyBag
    /\ run = [r \in RunId |-> IdleRun]
    /\ nextRun = 1
    /\ sends = {}
    /\ rejected = {}
    /\ roster = <<>>
    /\ creating = {}

\* ---- request handlers ------------------------------------------------------
\* main.py:116-137
create_member(o, st) ==
    /\ nextMemberId <= MaxMember
    /\ Cardinality({m \in members : m.organization_id = o}) < MEMBER_LIMIT
    /\ members' = members \cup
                    {[id |-> nextMemberId, organization_id |-> o, status |-> st]}
    /\ nextMemberId' = nextMemberId + 1
    /\ UNCHANGED <<credentials, broadcasts, logs, run, nextRun, sends, rejected, roster, creating>>

\* main.py:123-129  create_member, first half: a new request runs the count
\* query and the limit check; at the limit it ends with status 400
create_member_check(o, st) ==
    /\ Cardinality(creating) < MaxRequest
    /\ LET count == Cardinality({m \in members : m.organization_id = o}) IN
         creating' = creating \cup
                       {[id |-> Cardinality(creating) + 1,
                         pc |-> IF count >= MEMBER_LIMIT THEN "rejected" ELSE "checked",
                         organization_id |-> o,
                         status |-> st]}
    /\ UNCHANGED <<credentials, members, nextMemberId, broadcasts, logs, run,
                   nextRun, sends, rejected, roster>>

\* main.py:131-137  create_member, second half: db.add and db.commit of
\* request q, whatever other requests have committed since its count
create_member_insert(q) ==
    /\ \E c \in creating :
         /\ c.id = q
         /\ c.pc = "checked"
         /\ members' = members \cup
                         {[id |-> nextMemberId,
                           organization_id |-> c.organization_id,
                           status |-> c.status]}
         /\ creating' = (creating \ {c}) \cup {[c EXCEPT !.pc = "created"]}
    /\ nextMemberId' = nextMemberId + 1
    /\ UNCHANGED <<credentials, broadcasts, logs, run, nextRun, sends, rejected, roster>>

\* main.py:168-192
delete_member(member_id, o) ==
    /\ \E m \in members : m.id = member_id /\ m.organization_id = o
    /\ logs' = [l \in {x \in DOMAIN logs : x.member_id # member_id} |-> logs[l]]
    /\ members' = {m \in members : m.id # member_id}
    /\ UNCHANGED <<credentials, nextMemberId, broadcasts, run, nextRun, sends, rejected, roster, creating>>

\* main.py:241-258  the row is committed as draft (models.py:91) and the
\* task is enqueued with the request's own session object `db`
create_broadcast_rows(o, p) ==
    /\ Len(broadcasts) < MaxBroadcast
    /\ nextRun <= MaxRun
    /\ broadcasts' = Append(broadcasts,
                             [content |-> p.content,
                              media_url |-> p.media_url,
                              message_type |-> p.message_type,
                              template_name |-> p.template_name,
                              scheduled_time |-> p.scheduled_time,
                              status |-> DRAFT,
                              organization_id |-> o])
    /\ run' = [run EXCEPT ![nextRun] =
                 [IdleRun EXCEPT !.pc = "queued",
                                 !.broadcast_id = Len(broadcasts) + 1,
                                 !.db = "request",
                                 !.ctx = "open"]]
    /\ nextRun' = nextRun + 1
    /\ UNCHANGED <<credentials, members, nextMemberId, logs, sends, rejected, creating>>

create_broadcast(o, p) ==
    /\ create_broadcast_rows(o, p)
    /\ UNCHANGED roster

\* create_broadcast, observed: the history roster records who was eligible
\* at the moment the broadcast row was committed
create_broadcast_observed(o, p) ==
    /\ create_broadcast_rows(o, p)
    /\ roster' = Append(roster, ActiveMembers(o))

\* ---- process_broadcast, step by step ------------------------------------------
Running(r) == run[r].pc \in {"queued", "loaded", "resolved", "loop"}

\* a call that has returned ("done") or raised ("aborted"): its locals and the
\* uncommitted rows of its session are gone
Ended(rec, how) ==
    [IdleRun EXCEPT !.pc = how, !.broadcast_id = rec.broadcast_id,
                    !.db = rec.db, !.ctx = rec.ctx]

\* the broadcast query without its id filter: .first() answers the first row
\* of the table, whatever the id
LoadBroadcastFirstRow(r) ==
    /\ run[r].pc = "queued"
    /\ IF broadcasts # <<>>
       THEN run' = [run EXCEPT ![r].pc = "loaded",
                               ![r].broadcast_id = 1,
                               ![r].loaded = broadcasts[1].status,
                               ![r].organization_id = broadcasts[1].organization_id]
       ELSE run' = [run EXCEPT ![r] = Ended(run[r], "done")]
    /\ UNCHANGED <<credentials, members, nextMemberId, broadcasts, logs,
                   nextRun, sends, rejected, roster, creating>>

\* main.py:198-202  load the broadcast by id; absent: return
LoadBroadcast(r) ==
    /\ run[r].pc = "queued"
    /\ LET b == run[r].broadcast_id IN
         IF BroadcastExists(b)
         THEN run' = [run EXCEPT ![r].pc = "loaded",
                                 ![r].loaded = broadcasts[b].status,
                                 ![r].organization_id = broadcasts[b].organization_id]
         ELSE run' = [run EXCEPT ![r] = Ended(run[r], "done")]
    /\ UNCHANGED <<credentials, members, nextMemberId, broadcasts, logs,
                   nextRun, sends, rejected, roster, creating>>

\* the members query answered from the roster taken at creation time
ResolveMembersAtCreation(r) ==
    /\ run[r].pc = "loaded"
    /\ run' = [run EXCEPT ![r].pc = "resolved",
                          ![r].members = SortedSeq(roster[run[r].broadcast_id])]
    /\ UNCHANGED <<credentials, members, nextMemberId, broadcasts, logs,
                   nextRun, sends, rejected, roster, creating>>

\* main.py:204-212  the active members of the broadcast's organization
ResolveMembers(r) ==
    /\ run[r].pc = "loaded"
    /\ run' = [run EXCEPT ![r].pc = "resolved",
                          ![r].members = SortedSeq(ActiveMembers(run[r].organization_id))]
    /\ UNCHANGED <<credentials, members, nextMemberId, broadcasts, logs,
                   nextRun, sends, rejected, roster, creating>>

\* the first status write with the wrong member of the enum
CommitProcessingAsCompleted(r) ==
    /\ run[r].pc = "resolved"
    /\ broadcasts' = [broadcasts EXCEPT ![run[r].broadcast_id].status = COMPLETED]
    /\ run' = [run EXCEPT ![r].pc = "loop"]
    /\ UNCHANGED <<credentials, members, nextMemberId, logs, nextRun, sends, rejected, roster, creating>>

\* the first status write without its db.commit(): nothing is persisted
\* before the loop
CommitProcessingUncommitted(r) ==
    /\ run[r].pc = "resolved"
    /\ run' = [run EXCEPT ![r].pc = "loop"]
    /\ UNCHANGED <<credentials, members, nextMemberId, broadcasts, logs, nextRun,
                   sends, rejected, roster, creating>>

\* main.py:214-215  broadcast.status = PROCESSING; db.commit().  The session
\* writes the column only when the value differs from the one it loaded.
CommitProcessing(r) ==
    /\ run[r].pc = "resolved"
    /\ LET b == run[r].broadcast_id IN
         broadcasts' = IF run[r].loaded = PROCESSING THEN broadcasts
                       ELSE [broadcasts EXCEPT ![b].status = PROCESSING]
    /\ run' = [run EXCEPT ![r].pc = "loop"]
    /\ UNCHANGED <<credentials, members, nextMemberId, logs, nextRun, sends, rejected, roster, creating>>

\* main.py:219-223  the log row of one recipient: status "sent", no error
\* reason, whatever the channel does
NewLog(b, m) ==
    [broadcast_id |-> b, member_id |-> m, status |-> "sent", error_reason |-> NULL]

\* one iteration of the loop with a db.commit() of its own after db.add(log)
SendOneCommitting(r, ok) ==
    /\ run[r].pc = "loop"
    /\ run[r].idx < Len(run[r].members)
    /\ LET b == run[r].broadcast_id
           m == run[r].members[run[r].idx + 1]
       IN /\ run' = [run EXCEPT ![r].idx = @ + 1]
          /\ logs' = logs (+) SetToBag({NewLog(b, m)})
          /\ sends' = sends \cup {[run |-> r, broadcast_id |-> b, member_id |-> m]}
          /\ rejected' = IF ok THEN rejected
                         ELSE rejected \cup {[run |-> r, broadcast_id |-> b, member_id |-> m]}
    /\ UNCHANGED <<credentials, members, nextMemberId, broadcasts, nextRun,
                   roster, creating>>

\* main.py:217-235  one iteration of the loop: db.add(log), then the send.
\* ok is what the channel answers for this message; the code never reads it.
SendOne(r, ok) ==
    /\ run[r].pc = "loop"
    /\ run[r].idx < Len(run[r].members)
    /\ LET b == run[r].broadcast_id
           m == run[r].members[run[r].idx + 1]
       IN /\ run' = [run EXCEPT ![r].idx = @ + 1,
                                ![r].pending = @ \cup {NewLog(b, m)}]
          /\ sends' = sends \cup {[run |-> r, broadcast_id |-> b, member_id |-> m]}
          /\ rejected' = IF ok THEN rejected
                         ELSE rejected \cup {[run |-> r, broadcast_id |-> b, member_id |-> m]}
    /\ UNCHANGED <<credentials, members, nextMemberId, broadcasts, logs, nextRun,
                   roster, creating>>

\* the final status write reporting a run without recipients as failed
CommitCompletedFailsWhenEmpty(r) ==
    /\ run[r].pc = "loop"
    /\ run[r].idx = Len(run[r].members)
    /\ logs' = logs (+) SetToBag(run[r].pending)
    /\ broadcasts' = [broadcasts EXCEPT ![run[r].broadcast_id].status =
                         IF run[r].members = <<>> THEN FAILED ELSE COMPLETED]
    /\ run' = [run EXCEPT ![r] = Ended(run[r], "done")]
    /\ UNCHANGED <<credentials, members, nextMemberId, nextRun, sends, rejected, roster, creating>>

\* the final commit also blanking the message text of the broadcast
CommitCompletedClearsContent(r) ==
    /\ run[r].pc = "loop"
    /\ run[r].idx = Len(run[r].members)
    /\ logs' = logs (+) SetToBag(run[r].pending)
    /\ broadcasts' = [broadcasts EXCEPT ![run[r].broadcast_id].status = COMPLETED,
                                        ![run[r].broadcast_id].content = NULL]
    /\ run' = [run EXCEPT ![r] = Ended(run[r], "done")]
    /\ UNCHANGED <<credentials, members, nextMemberId, nextRun, sends, rejected, roster, creating>>

\* main.py:237-238  broadcast.status = COMPLETED; db.commit(): the pending
\* log rows and the status become durable together
CommitCompleted(r) ==
    /\ run[r].pc = "loop"
    /\ run[r].idx = Len(run[r].members)
    /\ logs' = logs (+) SetToBag(run[r].pending)
    /\ broadcasts' = [broadcasts EXCEPT ![run[r].broadcast_id].status = COMPLETED]
    /\ run' = [run EXCEPT ![r] = Ended(run[r], "done")]
    /\ UNCHANGED <<credentials, members, nextMemberId, nextRun, sends, rejected, roster, creating>>

\* main.py:196-238  a storage call of the run (query or commit) raises: the
\* function has no handler, the exception ends the run and the session's
\* uncommitted rows are lost
StorageError(r) ==
    /\ Running(r)
    /\ run' = [run EXCEPT ![r] = Ended(run[r], "aborted")]
    /\ UNCHANGED <<credentials, members, nextMemberId, broadcasts, logs,
                   nextRun, sends, rejected, roster, creating>>

\* the request that enqueued the run ends and its dependency get_db closes
\* the session, before the task starts or after it has ended
Teardown(r) ==
    /\ run[r].db = "request"
    /\ run[r].ctx = "open"
    /\ run[r].pc \in {"queued", "done", "aborted"}
    /\ run' = [run EXCEPT ![r].ctx = "closed"]
    /\ UNCHANGED <<credentials, members, nextMemberId, broadcasts, logs,
                   nextRun, sends, rejected, roster, creating>>

\* main.py:196  a call of process_broadcast with any id and the caller's
\* session, by a caller other than the task create_broadcast enqueues
process_broadcast(broadcast_id) ==
    /\ nextRun <= MaxRun
    /\ run' = [run EXCEPT ![nextRun] =
                 [IdleRun EXCEPT !.pc = "queued",
                                 !.broadcast_id = broadcast_id,
                                 !.db = "caller",
                                 !.ctx = "open"]]
    /\ nextRun' = nextRun + 1
    /\ UNCHANGED <<credentials, members, nextMemberId, broadcasts, logs, sends, rejected, roster, creating>>

Request ==
    \/ \E o \in Org, st \in MemberStatus : create_member(o, st)
    \/ \E m \in MemberId, o \in Org : delete_member(m, o)
    \/ \E o \in Org, p \in Payload : create_broadcast(o, p)

\* the steps of a run; the simulated send of main.py:227 always succeeds
RunStep(r) ==
    \/ LoadBroadcast(r)
    \/ ResolveMembers(r)
    \/ CommitProcessing(r)
    \/ SendOne(r, TRUE)
    \/ CommitCompleted(r)

\* the steps of a run whose sends go to a channel that may refuse a message
RunStepChannel(r) ==
    \/ LoadBroadcast(r)
    \/ ResolveMembers(r)
    \/ CommitProcessing(r)
    \/ \E ok \in BOOLEAN : SendOne(r, ok)
    \/ CommitCompleted(r)

\* the application: requests, and one background run per broadcast
Next ==
    \/ Request
    \/ \E r \in RunId : RunStep(r)
    \/ \E r \in RunId : StorageError(r)

Spec == Init /\ [][Next]_vars

\* the application with fair scheduling of the background tasks
FairSpec == Spec /\ \A r \in RunId : WF_vars(RunStep(r))

\* the application, with the end of the request that enqueued a run
NextSession ==
    \/ Next
    \/ \E r \in RunId : Teardown(r)

SessionSpec == Init /\ [][NextSession]_vars

\* the application in front of a channel that may refuse messages
NextChannel ==
    \/ Request
    \/ \E r \in RunId : RunStepChannel(r)
    \/ \E r \in RunId : StorageError(r)

ChannelSpec == Init /\ [][NextChannel]_vars

\* the application, and process_broadcast called again with any id
NextDispatch ==
    \/ Next
    \/ \E b \in 1..(MaxBroadcast + 1) : process_broadcast(b)

DispatchSpec == Init /\ [][NextDispatch]_vars

\* the application, observed with the roster of every broadcast; every
\* request body is the text message, no step of a run reads the body
RequestWindow ==
    \/ \E o \in Org, st \in MemberStatus : create_member(o, st)
    \/ \E m \in MemberId, o \in Org : delete_member(m, o)
    \/ \E o \in Org : create_broadcast_observed(o, TextMessage)

NextWindow ==
    \/ RequestWindow
    \/ \E r \in RunId : RunStep(r)
    \/ \E r \in RunId : StorageError(r)

WindowSpec == Init /\ [][NextWindow]_vars

\* an organization one member short of the limit, after MEMBER_LIMIT - 1
\* create_member requests for organization 1
InitAtLimit ==
    /\ credentials = [o \in Org |-> NULL]
    /\ members = {[id |-> i, organization_id |-> 1, status |-> ACTIVE] :
                    i \in 1..(MEMBER_LIMIT - 1)}
    /\ nextMemberId = MEMBER_LIMIT
    /\ broadcasts = <<>>
    /\ logs = EmptyBag
    /\ run = [r \in RunId |-> IdleRun]
    /\ nextRun = 1
    /\ sends = {}
    /\ rejected = {}
    /\ roster = <<>>
    /\ creating = {}

\* create_member requests served concurrently, each in its two halves
NextCreate ==
    \/ \E o \in Org, st \in MemberStatus : create_member_check(o, st)
    \/ \E q \in RequestId : create_member_insert(q)

CreateSpec == InitAtLimit /\ [][NextCreate]_vars

\* ---- properties ---------------------------------------------------------------
\* number of rows of the ledger L for the pair (broadcast b, member m)
CopiesOf(L, b, m) ==
    BagCardinality([l \in {x \in DOMAIN L : x.broadcast_id = b /\ x.member_id = m}
                      |-> L[l]])

\* number of rows of the ledger L for broadcast b
RowsOf(L, b) ==
    BagCardinality([l \in {x \in DOMAIN L : x.broadcast_id = b} |-> L[l]])

Terminal == {COMPLETED, FAILED}
PreDispatch == {DRAFT, SCHEDULED}

\* the members of the organization of broadcast b that are active now
EligibleNow(b) ==
    {m.id : m \in {x \in members :
                     /\ x.organization_id = broadcasts[b].organization_id
                     /\ x.status = ACTIVE}}

\* C1: the recipients a run resolves are exactly the members of the
\* broadcast's organization that are active at that moment, and when the run
\* finishes the broadcast is completed and its ledger holds exactly one row
\* for each resolved recipient and no row for anybody else.
C1_LedgerIsBijection ==
    [][\A r \in RunId :
         LET b == run[r].broadcast_id IN
           /\ (run[r].pc = "loaded" /\ run'[r].pc = "resolved")
                => Range(run'[r].members) = EligibleNow(b)
                   /\ Len(run'[r].members) = Cardinality(EligibleNow(b))
           /\ (run[r].pc = "loop" /\ run'[r].pc = "done")
                => /\ broadcasts'[b].status = COMPLETED
                   /\ \A m \in MemberId :
                        CopiesOf(logs', b, m) =
                          IF m \in Range(run[r].members) THEN 1 ELSE 0
                   /\ RowsOf(logs', b) = Len(run[r].members)]_vars

\* a completed broadcast whose organization has an active member with one
\* row and an inactive member with none
C1_Witness ==
    \E r \in RunId :
      /\ run[r].pc = "done"
      /\ BroadcastExists(run[r].broadcast_id)
      /\ LET b == run[r].broadcast_id IN
           /\ broadcasts[b].status = COMPLETED
           /\ Cardinality(EligibleNow(b)) = 1
           /\ \A m \in EligibleNow(b) : CopiesOf(logs, b, m) = 1
           /\ RowsOf(logs, b) = 1
           /\ \E x \in members :
                /\ x.organization_id = broadcasts[b].organization_id
                /\ x.status = INACTIVE
                /\ CopiesOf(logs, b, x.id) = 0

Rank(st) ==
    CASE st = DRAFT -> 0
      [] st = SCHEDULED -> 1
      [] st = PROCESSING -> 2
      [] st \in Terminal -> 3

\* C2: a broadcast starts as draft or scheduled; every change of its status
\* moves forward in draft, scheduled, processing, completed|failed; a terminal
\* status is entered from processing only and is never left.
C2_StatusMonotonic ==
    [][/\ Len(broadcasts') >= Len(broadcasts)
       /\ \A b \in 1..Len(broadcasts') :
            IF b \in 1..Len(broadcasts)
            THEN broadcasts'[b].status # broadcasts[b].status
                   => /\ broadcasts[b].status \notin Terminal
                      /\ Rank(broadcasts[b].status) < Rank(broadcasts'[b].status)
                      /\ broadcasts'[b].status \in Terminal
                           => broadcasts[b].status = PROCESSING
            ELSE broadcasts'[b].status \in PreDispatch]_vars

\* a broadcast whose run has finished and took it to completed
C2_Witness ==
    \E r \in RunId :
      /\ run[r].pc = "done"
      /\ BroadcastExists(run[r].broadcast_id)
      /\ broadcasts[run[r].broadcast_id].status = COMPLETED

\* C10: while the persisted status of a broadcast is draft or scheduled, no
\* send has been attempted for it and no ledger row exists for it, neither in
\* the table nor pending in a session.
C10_ProcessingBeforeSends ==
    \A b \in 1..Len(broadcasts) :
      broadcasts[b].status \in PreDispatch
        => /\ \A s \in sends : s.broadcast_id # b
           /\ RowsOf(logs, b) = 0
           /\ \A r \in RunId : \A l \in run[r].pending : l.broadcast_id # b

\* a run inside its loop, after a send and with a pending row, while the
\* persisted status is processing
C10_Witness ==
    \E r \in RunId :
      /\ run[r].pc = "loop"
      /\ run[r].pending # {}
      /\ \E s \in sends : s.run = r
      /\ broadcasts[run[r].broadcast_id].status = PROCESSING

\* the send attempt of run r to member m for broadcast b
Attempt(r, b, m) == [run |-> r, broadcast_id |-> b, member_id |-> m]

\* C3: while two runs of the same broadcast are in progress together, no
\* member has a send attempt from both and no member has a ledger row
\* pending in both.
C3_ConcurrentRunsAttemptOnce ==
    \A r1 \in RunId, r2 \in RunId :
      (/\ r1 # r2
       /\ Running(r1) /\ Running(r2)
       /\ run[r1].broadcast_id = run[r2].broadcast_id)
        => \A m \in MemberId :
             LET b == run[r1].broadcast_id IN
               /\ ~(Attempt(r1, b, m) \in sends /\ Attempt(r2, b, m) \in sends)
               /\ ~(NewLog(b, m) \in run[r1].pending /\ NewLog(b, m) \in run[r2].pending)

\* C4: a run that found its broadcast already processing, completed or
\* failed does nothing: none of its steps changes a broadcast, the ledger or
\* the send attempts.
C4_RedispatchIsNoOp ==
    [][\A r \in RunId :
         (run[r].loaded \in {PROCESSING, COMPLETED, FAILED} /\ run'[r] # run[r])
           => /\ broadcasts' = broadcasts
              /\ logs' = logs
              /\ sends' = sends]_vars

\* C5: when a run finishes, the broadcast is completed, every recipient whose
\* send the channel refused has a row with status failed and an error reason,
\* and every other recipient has a row with status sent or delivered.
C5_SenderFailureRecorded ==
    [][\A r \in RunId :
         (run[r].pc = "loop" /\ run'[r].pc = "done")
           => LET b == run[r].broadcast_id IN
                /\ broadcasts'[b].status = COMPLETED
                /\ \A m \in Range(run[r].members) :
                     IF Attempt(r, b, m) \in rejected
                     THEN \E l \in DOMAIN logs' :
                            /\ l.broadcast_id = b /\ l.member_id = m
                            /\ l.status = "failed" /\ l.error_reason # NULL
                     ELSE \E l \in DOMAIN logs' :
                            /\ l.broadcast_id = b /\ l.member_id = m
                            /\ l.status \in {"sent", "delivered"}]_vars

\* C6: a run for a broadcast of an organization without channel credentials
\* attempts no send and creates no ledger row, pending or committed, and when
\* it has returned the broadcast is failed.
C6_NoCredentialsFails ==
    \A r \in RunId :
      (/\ BroadcastExists(run[r].broadcast_id)
       /\ credentials[broadcasts[run[r].broadcast_id].organization_id] = NULL)
        => LET b == run[r].broadcast_id IN
             /\ \A s \in sends : s.run # r
             /\ run[r].pending = {}
             /\ RowsOf(logs, b) = 0
             /\ run[r].pc = "done" => broadcasts[b].status = FAILED

\* C7: a run that has started works on a session it opened itself, and that
\* session has not been closed.
C7_RunOwnsSession ==
    \A r \in RunId :
      run[r].pc \in {"loaded", "resolved", "loop"}
        => run[r].db = "own" /\ run[r].ctx = "open"

\* C8: under fair scheduling of the background tasks every broadcast that
\* exists eventually has status completed or failed.
C8_EventuallyTerminal ==
    \A b \in BroadcastId :
      BroadcastExists(b) ~> (BroadcastExists(b) /\ broadcasts[b].status \in Terminal)

\* C9: when a run aborts, a broadcast that is still draft or scheduled keeps
\* its status, and a broadcast that had left draft/scheduled ends failed.
C9_AbortedRunFails ==
    [][\A r \in RunId :
         (Running(r) /\ run'[r].pc = "aborted" /\ BroadcastExists(run[r].broadcast_id))
           => LET b == run[r].broadcast_id IN
                IF broadcasts[b].status \in PreDispatch
                THEN broadcasts'[b].status = broadcasts[b].status
                ELSE broadcasts'[b].status = FAILED]_vars

\* C11: the recipients are evaluated when the run resolves them, not when the
\* broadcast is created: a member that became eligible after creation and is
\* eligible at the resolve step is a recipient and has exactly one ledger row
\* when the run finishes; a member that was eligible at creation and has been
\* deleted before the resolve step is no recipient and has no ledger row.
C11_RecipientsResolvedAtRunStart ==
    [][\A r \in RunId :
         LET b == run[r].broadcast_id IN
           /\ (run[r].pc = "loaded" /\ run'[r].pc = "resolved")
                => \A m \in MemberId :
                     /\ (m \notin roster[b] /\ m \in EligibleNow(b))
                          => m \in Range(run'[r].members)
                     /\ (m \in roster[b] /\ \A x \in members : x.id # m)
                          => m \notin Range(run'[r].members)
           /\ (run[r].pc = "loop" /\ run'[r].pc = "done")
                => \A m \in MemberId :
                     /\ (m \notin roster[b] /\ m \in Range(run[r].members))
                          => CopiesOf(logs', b, m) = 1
                     /\ (m \in roster[b] /\ m \notin Range(run[r].members))
                          => CopiesOf(logs', b, m) = 0]_vars

\* a completed broadcast with a ledger row for a member created after the
\* broadcast, and none for a member of its roster that was deleted before the
\* run resolved its recipients (the run never sent to it)
C11_Witness ==
    \E r \in RunId :
      /\ run[r].pc = "done"
      /\ BroadcastExists(run[r].broadcast_id)
      /\ LET b == run[r].broadcast_id IN
           /\ broadcasts[b].status = COMPLETED
           /\ \E m \in MemberId : m \notin roster[b] /\ CopiesOf(logs, b, m) = 1
           /\ \E m \in roster[b] :
                /\ \A x \in members : x.id # m
                /\ \A s \in sends : s.member_id # m
                /\ CopiesOf(logs, b, m) = 0

\* C12: a run that resolves its recipients while the organization has no
\* active member resolves the empty list; no step of that run makes the
\* broadcast failed or leaves a ledger row for it, and when the run returns
\* the broadcast is completed with zero ledger rows.
C12_NoRecipientsCompletes ==
    [][\A r \in RunId :
         LET b == run[r].broadcast_id IN
           /\ (run[r].pc = "loaded" /\ run'[r].pc = "resolved" /\ EligibleNow(b) = {})
                => run'[r].members = <<>>
           /\ (run[r].pc \in {"resolved", "loop"} /\ run[r].members = <<>>
                 /\ run'[r] # run[r])
                => /\ broadcasts'[b].status # FAILED
                   /\ RowsOf(logs', b) = 0
                   /\ run'[r].pc = "done" => broadcasts'[b].status = COMPLETED]_vars

\* a completed broadcast without ledger rows whose run sent nothing, in an
\* organization whose only members are inactive
C12_Witness ==
    \E r \in RunId :
      /\ run[r].pc = "done"
      /\ BroadcastExists(run[r].broadcast_id)
      /\ LET b == run[r].broadcast_id IN
           /\ broadcasts[b].status = COMPLETED
           /\ RowsOf(logs, b) = 0
           /\ \A s \in sends : s.run # r
           /\ EligibleNow(b) = {}
           /\ \E x \in members : x.organization_id = broadcasts[b].organization_id

\* every ledger row, committed or pending in a session, whose member row
\* exists links a broadcast and a member of the same organization
SameOrganizationRows ==
    /\ \A l \in DOMAIN logs : \A x \in members :
         x.id = l.member_id
           => x.organization_id = broadcasts[l.broadcast_id].organization_id
    /\ \A r \in RunId : \A l \in run[r].pending : \A x \in members :
         x.id = l.member_id
           => x.organization_id = broadcasts[l.broadcast_id].organization_id

C14_MissingBroadcastIsNoOp ==
    [][\A r \in RunId :
         (/\ run[r].pc = "queued"
          /\ ~BroadcastExists(run[r].broadcast_id)
          /\ run'[r] # run[r])
           => /\ broadcasts' = broadcasts
              /\ logs' = logs
              /\ sends' = sends
              /\ members' = members
              /\ ~StorageError(r) => run'[r].pc = "done"]_vars

\* a call for an id that matches no row has returned, while a broadcast
\* exists and is still a draft without ledger rows
C14_Witness ==
    \E r \in RunId :
      /\ run[r].pc = "done"
      /\ run[r].db = "caller"
      /\ ~BroadcastExists(run[r].broadcast_id)
      /\ BroadcastExists(1)
      /\ broadcasts[1].status = DRAFT
      /\ logs = EmptyBag

\* C15: a broadcast row is never removed; a step that changes a broadcast
\* row is a step of a run of that broadcast, and it leaves content, media_url,
\* message_type, template_name, scheduled_time and organization_id as they
\* were, so that they stay what create_broadcast stored.
C15_ContentImmutable ==
    [][/\ Len(broadcasts') >= Len(broadcasts)
       /\ \A b \in 1..Len(broadcasts) :
            /\ broadcasts'[b].content = broadcasts[b].content
            /\ broadcasts'[b].media_url = broadcasts[b].media_url
            /\ broadcasts'[b].message_type = broadcasts[b].message_type
            /\ broadcasts'[b].template_name = broadcasts[b].template_name
            /\ broadcasts'[b].scheduled_time = broadcasts[b].scheduled_time
            /\ broadcasts'[b].organization_id = broadcasts[b].organization_id
            /\ broadcasts'[b] # broadcasts[b]
                 => \E r \in RunId :
                      /\ run[r].broadcast_id = b
                      /\ Running(r)
                      /\ run'[r] # run[r]
       /\ \A b \in 1..Len(broadcasts') :
            b \notin 1..Len(broadcasts)
              => \E p \in Payload :
                   /\ broadcasts'[b].content = p.content
                   /\ broadcasts'[b].media_url = p.media_url
                   /\ broadcasts'[b].message_type = p.message_type
                   /\ broadcasts'[b].template_name = p.template_name
                   /\ broadcasts'[b].scheduled_time = p.scheduled_time]_vars

\* a broadcast created from the template message that went through its
\* whole run, is completed with a ledger row, and still carries every field
\* of its request
C15_Witness ==
    \E b \in 1..Len(broadcasts) :
      /\ broadcasts[b].status = COMPLETED
      /\ RowsOf(logs, b) > 0
      /\ broadcasts[b].content = TemplateMessage.content
      /\ broadcasts[b].media_url = TemplateMessage.media_url
      /\ broadcasts[b].message_type = TemplateMessage.message_type
      /\ broadcasts[b].template_name = TemplateMessage.template_name
      /\ broadcasts[b].scheduled_time = TemplateMessage.scheduled_time

\* C16: the ledger rows of a run become durable in the commit that writes
\* completed.  A broadcast whose committed status is draft, scheduled or
\* processing has no committed ledger row, and a run that was interrupted
\* before its final commit has left its broadcast without any ledger row, in
\* processing if the first commit had been made (always so once it has sent).
C16_LedgerCommittedWithCompleted ==
    /\ \A b \in 1..Len(broadcasts) :
         broadcasts[b].status \in {DRAFT, SCHEDULED, PROCESSING}
           => RowsOf(logs, b) = 0
    /\ \A r \in RunId :
         (run[r].pc = "aborted" /\ BroadcastExists(run[r].broadcast_id))
           => LET b == run[r].broadcast_id IN
                /\ RowsOf(logs, b) = 0
                /\ broadcasts[b].status \in {DRAFT, PROCESSING}
                /\ (\E s \in sends : s.run = r) => broadcasts[b].status = PROCESSING

\* a run interrupted after a send: the broadcast is left in processing, the
\* recipient is still a member, and the ledger is empty
C16_Witness ==
    \E r \in RunId :
      /\ run[r].pc = "aborted"
      /\ BroadcastExists(run[r].broadcast_id)
      /\ broadcasts[run[r].broadcast_id].status = PROCESSING
      /\ \E s \in sends : s.run = r /\ \E x \in members : x.id = s.member_id
      /\ logs = EmptyBag

\* C17: referential integrity of the ledger: every committed ledger row
\* references a member row that exists.
C17_LedgerMembersExist ==
    \A l \in DOMAIN logs : \E x \in members : x.id = l.member_id

\* the number of member rows of organization o in the table M
MemberCount(M, o) == Cardinality({m \in M : m.organization_id = o})

\* C18: after every step no organization has more than MEMBER_LIMIT members,
\* and a create_member request that runs its check while the organization
\* has MEMBER_LIMIT members or more is rejected and adds no member.
C18_MemberCap ==
    [][/\ \A o \in Org : MemberCount(members', o) <= MEMBER_LIMIT
       /\ \A c \in creating' :
            (/\ \A d \in creating : d.id # c.id
             /\ MemberCount(members, c.organization_id) >= MEMBER_LIMIT)
              => c.pc = "rejected" /\ members' = members]_vars

====
